---- MODULE Spec2Model ----
(***************************************************************************)
(* Model of the Bobgo shipping connector (delivery_bobgo): the carrier     *)
(* methods of models/delivery_bobgo.py and the rate wizard of              *)
(* wizard/choose_bobgo_rate.py.  Every handler is one action; the remote   *)
(* API's answer to each POST is an input of the action.                    *)
(*                                                                         *)
(* Strings are sequences of tokens, so that formatting and URL joining are *)
(* computed rather than assumed.  Python's False / None are the token      *)
(* "False" / "None".                                                       *)
(***************************************************************************)
EXTENDS Integers, Sequences, FiniteSets, TLC

VARIABLES carrier, picking, order, wizard, cache, now, call

vars == <<carrier, picking, order, wizard, cache, now, call>>

\* ------------------------------------------------------------------ bounds
MaxTime == 450
MaxWizards == 2
MaxPickings == 2

\* --------------------------------------------------------------- constants
BOBGO_API_TIMEOUT == 30
BOBGO_CACHE_DURATION == 300

PyFalse == "False"
PyNone == "None"

\* ------------------------------------------------------- Python primitives
RECURSIVE CountPlaceholders(_)
CountPlaceholders(tpl) ==
    IF tpl = <<>> THEN 0
    ELSE (IF Head(tpl) = "%s" THEN 1 ELSE 0) + CountPlaceholders(Tail(tpl))

RECURSIVE Substitute(_, _)
Substitute(tpl, args) ==
    IF tpl = <<>> THEN <<>>
    ELSE IF Head(tpl) = "%s"
         THEN Head(args) \o Substitute(Tail(tpl), Tail(args))
         ELSE <<Head(tpl)>> \o Substitute(Tail(tpl), args)

\* str % args : args is the tuple of arguments (each one a token sequence).
\* A tuple whose length differs from the number of placeholders is a TypeError.
PyFormat(tpl, args) ==
    IF CountPlaceholders(tpl) = Len(args)
    THEN [ok |-> TRUE, val |-> Substitute(tpl, args)]
    ELSE [ok |-> FALSE, val |-> <<"TypeError">>]

\* urllib.parse.urljoin on (origin, path) URLs: a reference that starts with
\* "/" replaces the whole path of the base, a relative one its last segment.
urljoin(base, ref) ==
    IF ref.absolute
    THEN [origin |-> base.origin, path |-> ref.path]
    ELSE [origin |-> base.origin,
          path |-> SubSeq(base.path, 1, Len(base.path) - 1) \o ref.path]

AbsRef(p) == [absolute |-> TRUE, path |-> p]

\* ------------------------------------------------------------ HTTP exchange
Statuses == {200, 201, 400, 401, 403, 404, 429, 500, 502, 503}

\* requests.Response.raise_for_status raises HTTPError for 4xx and 5xx.
IsHttpError(status) == status >= 400 /\ status < 600

ErrorFields == <<"detail", "error", "message", "description">>

\* error bodies: text that is not JSON, JSON null, JSON objects
ErrorBodies ==
    { [kind |-> "text", text |-> <<>>],
      [kind |-> "text", text |-> <<"<html>">>],
      [kind |-> "null"],
      [kind |-> "object", keys |-> {}],
      [kind |-> "object", keys |-> {"detail"}],
      [kind |-> "object", keys |-> {"error", "message"}],
      [kind |-> "object", keys |-> {"description", "code"}] }

\* value stored under key k of an error object, and str() of the whole object
FieldValue(k) == <<"<" \o k \o ">">>
ObjStr(body) == <<"{", ToString(Cardinality(body.keys)), "}">>

RECURSIVE FirstField(_, _)
FirstField(fields, body) ==
    IF fields = <<>> THEN ObjStr(body)
    ELSE IF Head(fields) \in body.keys THEN FieldValue(Head(fields))
    ELSE FirstField(Tail(fields), body)

\* DeliveryCarrier._extract_error_detail
_extract_error_detail(body) ==
    CASE body.kind = "text" ->
           [ok |-> TRUE,
            val |-> IF body.text # <<>> THEN body.text
                    ELSE <<"No error details available">>]
      [] body.kind = "null" -> [ok |-> FALSE, val |-> <<"TypeError">>]
      [] OTHER -> [ok |-> TRUE, val |-> FirstField(ErrorFields, body)]

HttpErrorTemplates(status_code) ==
    CASE status_code = 400 -> <<"Bad request to Bobgo API: ", "%s">>
      [] status_code = 401 -> <<"Authentication failed. Please check your Bobgo API key.">>
      [] status_code = 403 -> <<"Access forbidden. Your API key may not have the required permissions.">>
      [] status_code = 429 -> <<"Rate limit exceeded. Please try again later.">>
      [] status_code = 500 -> <<"Bobgo API server error. Please try again later.">>
      [] status_code = 502 -> <<"Bobgo API is temporarily unavailable. Please try again later.">>
      [] status_code = 503 -> <<"Bobgo API service is temporarily overloaded. Please try again later.">>
      [] OTHER -> <<"Bobgo API returned error (HTTP ", "%s", "): ", "%s">>

\* DeliveryCarrier._format_http_error
_format_http_error(status_code, error_detail) ==
    PyFormat(HttpErrorTemplates(status_code),
             <<<<ToString(status_code)>>, error_detail>>)

\* ---------------------------------------------------------------- carrier
CarrierIds == {2, 12}
ApiKeys == {PyFalse, "raw", "Bearer"}
NoTime == 0 - 1

\* DeliveryCarrier.bobgo_get_api_base_url
bobgo_get_api_base_url(c) ==
    IF c.bobgo_test_mode
    THEN [origin |-> "https://api.sandbox.bobgo.co.za", path |-> <<"v2">>]
    ELSE [origin |-> "https://api.bobgo.co.za", path |-> <<"v2">>]

\* DeliveryCarrier.bobgo_validate_configuration: the key after the call, or
\* the UserError.  A configured key without the prefix gets "Bearer " added.
bobgo_validate_configuration(c) ==
    IF c.bobgo_api_key = PyFalse
    THEN [ok |-> FALSE,
          val |-> <<"Bobgo API Key is not configured. Please set it in the delivery method configuration.">>]
    ELSE [ok |-> TRUE, val |-> "Bearer"]

Headers(key) == [Authorization |-> key]

Post(url, key, payload) ==
    [method |-> "POST", url |-> url, headers |-> Headers(key), payload |-> payload]

\* ------------------------------------------------------------- call record
NoResult == [none |-> TRUE]
PyBool(b) == [bool |-> b]
PyStr(s) == [str |-> s]
PyList(l) == [list |-> l]

NoCall ==
    [op |-> "none", arg |-> <<>>, time |-> 0, outcome |-> "none",
     result |-> NoResult, message |-> <<>>, requests |-> <<>>,
     exchanges |-> <<>>, writes |-> <<>>]

Returned(op, arg, result, requests, exchanges, writes) ==
    [op |-> op, arg |-> arg, time |-> now, outcome |-> "return",
     result |-> result, message |-> <<>>, requests |-> requests,
     exchanges |-> exchanges, writes |-> writes]

Raised(op, arg, exc, message, requests, exchanges, writes) ==
    [op |-> op, arg |-> arg, time |-> now, outcome |-> exc,
     result |-> NoResult, message |-> message, requests |-> requests,
     exchanges |-> exchanges, writes |-> writes]

\* ------------------------------------------------------- connection test
ConnExchanges ==
    { [kind |-> "Timeout"], [kind |-> "ConnectionError"] }
    \cup { [kind |-> "response", status |-> s, body |-> b] :
             s \in Statuses, b \in ErrorBodies }

ExcStr(ex) == <<"<" \o ex.kind \o ">">>

ConnStatusWrite_AlwaysTrue(status) ==
    [bobgo_last_connection_test |-> now, bobgo_connection_status |-> TRUE]

\* the values of self.write({...}) in bobgo_test_connection
ConnStatusWrite(status) ==
    [bobgo_last_connection_test |-> now, bobgo_connection_status |-> status]

SuccessNotification ==
    [type |-> "ir.actions.client", tag |-> "display_notification",
     params |-> [title |-> "Connection Successful",
                 message |-> <<"Bobgo API connection test passed successfully! Response time: ",
                               "%.2fs">>,
                 type |-> "success", sticky |-> FALSE]]

ConnFailed(e) == PyFormat(<<"Connection test failed: ", "%s">>, <<e>>).val

\* DeliveryCarrier.bobgo_test_connection, as the call record it ends in
TestConnectionCall(ex) ==
    LET cfg == bobgo_validate_configuration(carrier)
        url == urljoin(bobgo_get_api_base_url(carrier), AbsRef(<<"rates-at-checkout">>))
        req == <<Post(url, cfg.val, "test_payload")>>
        bad == <<ConnStatusWrite(FALSE)>>
    IN  IF ~cfg.ok
        THEN Raised("bobgo_test_connection", <<>>, "UserError",
                    ConnFailed(cfg.val), <<>>, <<>>, bad)
        ELSE IF ex.kind = "Timeout"
        THEN Raised("bobgo_test_connection", <<>>, "UserError",
                    PyFormat(<<"Connection test timed out after ", "%s",
                               " seconds. Please try again.">>,
                             <<<<ToString(BOBGO_API_TIMEOUT)>>>>).val,
                    req, <<ex>>, bad)
        ELSE IF ex.kind # "response"
        THEN Raised("bobgo_test_connection", <<>>, "UserError",
                    ConnFailed(ExcStr(ex)), req, <<ex>>, bad)
        ELSE IF ex.status = 200
        THEN Returned("bobgo_test_connection", <<>>, SuccessNotification,
                      req, <<ex>>, <<ConnStatusWrite(TRUE)>>)
        ELSE LET det == _extract_error_detail(ex.body)
                 inner == IF det.ok
                          THEN PyFormat(<<"Connection test failed (HTTP ", "%s",
                                          "): ", "%s">>,
                                        <<<<ToString(ex.status)>>, det.val>>).val
                          ELSE det.val
             IN  \* the UserError of the else branch is caught by the
                 \* "except Exception" clause, which writes and raises again
                 Raised("bobgo_test_connection", <<>>, "UserError",
                        ConnFailed(inner), req, <<ex>>, bad \o bad)

ApplyWrites(c, writes) ==
    IF writes = <<>> THEN c
    ELSE [c EXCEPT !.bobgo_last_connection_test =
                        writes[Len(writes)].bobgo_last_connection_test,
                   !.bobgo_connection_status =
                        writes[Len(writes)].bobgo_connection_status]

TestConnection ==
    \E ex \in ConnExchanges :
        LET r == TestConnectionCall(ex)
            cfg == bobgo_validate_configuration(carrier)
            keyed == IF cfg.ok THEN [carrier EXCEPT !.bobgo_api_key = cfg.val]
                     ELSE carrier
        IN  /\ call' = r
            /\ carrier' = ApplyWrites(keyed, r.writes)
            /\ UNCHANGED <<picking, order, wizard, cache, now>>

\* time passes between two calls, half a cache duration at a time
Tick ==
    /\ now + BOBGO_CACHE_DURATION \div 2 <= MaxTime
    /\ now' = now + BOBGO_CACHE_DURATION \div 2
    /\ UNCHANGED <<carrier, picking, order, wizard, cache, call>>

NewCarriers ==
    [id : CarrierIds, name : {"Bobgo"}, delivery_type : {"bobgo", "fixed"},
     bobgo_api_key : ApiKeys, bobgo_test_mode : BOOLEAN,
     bobgo_handling_time : {1}, bobgo_connection_status : {FALSE},
     bobgo_last_connection_test : {NoTime}]

InitConn ==
    /\ carrier \in {c \in NewCarriers : c.delivery_type = "bobgo"}
    /\ picking = <<>>
    /\ order = <<>>
    /\ wizard = <<>>
    /\ cache = {}
    /\ now = 0
    /\ call = NoCall

NextConn == TestConnection \/ Tick

SpecConn == InitConn /\ [][NextConn]_vars

\* ------------------------------------------------------------------ rating
OrderIds == {1, 11}

ProductLine ==
    [is_delivery |-> FALSE, product_id |-> TRUE, name |-> <<"Widget">>,
     price_unit |-> 200]
OldDeliveryLine ==
    [is_delivery |-> TRUE, product_id |-> TRUE, name |-> <<"Old delivery">>,
     price_unit |-> 50]

SaleOrder(lines, warehouse, shipping) ==
    [order_line |-> lines, warehouse_partner |-> warehouse,
     partner_shipping |-> shipping]

GoodOrder == SaleOrder(<<ProductLine>>, TRUE, TRUE)
OrderKinds ==
    { GoodOrder,
      SaleOrder(<<>>, TRUE, TRUE),
      SaleOrder(<<OldDeliveryLine>>, TRUE, TRUE),
      SaleOrder(<<ProductLine>>, FALSE, TRUE),
      SaleOrder(<<ProductLine>>, TRUE, FALSE) }

\* rates of a rates response: a rate is a JSON object, keys may be missing
RateA ==
    [keys |-> {"service_name", "total_price", "service_level_code", "provider_slug"},
     nulls |-> {}, service_name |-> "Economy", total_price |-> 250,
     service_level_code |-> "ECO", provider_slug |-> "demo"]
RateB ==
    [keys |-> {"service_level_code", "provider_slug"},
     nulls |-> {}, service_name |-> PyNone, total_price |-> 0,
     service_level_code |-> "EXP", provider_slug |-> "fast"]
RateC ==
    [keys |-> {"service_name", "total_price", "service_level_code", "provider_slug"},
     nulls |-> {}, service_name |-> "Express", total_price |-> 100,
     service_level_code |-> "EXP", provider_slug |-> "fast"]

\* a rate whose total_price is JSON null
RateN ==
    [keys |-> {"service_name", "total_price", "service_level_code", "provider_slug"},
     nulls |-> {"total_price"}, service_name |-> "Economy", total_price |-> 0,
     service_level_code |-> "ECO", provider_slug |-> "demo"]

\* float(rate.get("total_price", 0.0)) raises TypeError on None
PriceIsNull(r) == "total_price" \in r.keys /\ "total_price" \in r.nulls

\* dict.get(key, default)
DictGet(d, k, default) == IF k \in d.keys THEN d[k] ELSE default

\* bodies of a 2xx answer to a rates request
TextBody(flavour) == [kind |-> "text", text |-> <<>>, decode_error |-> flavour]
RatesBody(rates) == [kind |-> "object", keys |-> {"rates"}, rates |-> rates]
NoRatesKeyBody == [kind |-> "object", keys |-> {"message"}, rates |-> <<>>]

Response(status, body) == [kind |-> "response", status |-> status, body |-> body]

\* _order = 'total_price asc' of choose.bobgo.rate.line
RECURSIVE InsertByPrice(_, _)
InsertByPrice(l, sorted) ==
    IF sorted = <<>> THEN <<l>>
    ELSE IF l.total_price < Head(sorted).total_price THEN <<l>> \o sorted
    ELSE <<Head(sorted)>> \o InsertByPrice(l, Tail(sorted))

RECURSIVE SortByPrice(_)
SortByPrice(ls) ==
    IF ls = <<>> THEN <<>>
    ELSE InsertByPrice(ls[Len(ls)], SortByPrice(SubSeq(ls, 1, Len(ls) - 1)))

WizardLine(r) ==
    [service_name |-> DictGet(r, "service_name", "Unknown Service"),
     total_price |-> DictGet(r, "total_price", 0),
     service_code |-> DictGet(r, "service_code", PyNone),
     provider_slug |-> DictGet(r, "provider_slug", PyNone)]

\* the choose.bobgo.rate record _create_rate_selection_wizard creates
NewWizard(self, oid, rates) ==
    [order_id |-> oid, carrier_id |-> self.id,
     line_ids |-> SortByPrice([i \in 1..Len(rates) |-> WizardLine(rates[i])])]

\* the action _create_rate_selection_wizard returns
WizardAction(wid) ==
    [type |-> "ir.actions.act_window", name |-> "Choose a Shipping Rate",
     res_model |-> "choose.bobgo.rate", view_mode |-> "form",
     res_id |-> wid, target |-> "new", context |-> "env.context"]

IsShippable(l) == ~l.is_delivery /\ l.product_id

\* DeliveryCarrier._prepare_order_items (the items of the payload)
_prepare_order_items(o) == SelectSeq(o.order_line, IsShippable)

Max(a, b) == IF a >= b THEN a ELSE b

Outcome(exc, result, message, requests, exchanges, created) ==
    [outcome |-> exc, result |-> result, message |-> message,
     requests |-> requests, exchanges |-> exchanges, created |-> created]

UserErr(message, requests, exchanges) ==
    Outcome("UserError", NoResult, message, requests, exchanges, <<>>)

\* the except clauses of bobgo_rate_shipment for an HTTP error status
RateHttpError(ex, req) ==
    LET det == _extract_error_detail(ex.body)
        msg == _format_http_error(ex.status, det.val)
    IN  IF ~det.ok
        THEN Outcome("TypeError", NoResult, <<>>, req, <<ex>>, <<>>)
        ELSE IF ~msg.ok
        THEN Outcome("TypeError", NoResult, <<>>, req, <<ex>>, <<>>)
        ELSE UserErr(msg.val, req, <<ex>>)

\* the body of a 2xx answer in bobgo_rate_shipment
RateParsed(self, oid, ex, req) ==
    CASE ex.body.kind = "text" ->
           IF ex.body.decode_error = "RequestException"
           THEN UserErr(PyFormat(<<"Bobgo API connection failed: ", "%s">>,
                                 <<<<"<JSONDecodeError>">>>>).val, req, <<ex>>)
           ELSE UserErr(<<"Invalid response from Bobgo API. Please try again.">>,
                        req, <<ex>>)
      [] ex.body.kind = "null" ->
           Outcome("AttributeError", NoResult, <<>>, req, <<ex>>, <<>>)
      [] OTHER ->
           IF "rates" \notin ex.body.keys \/ ex.body.rates = <<>>
           THEN UserErr(<<"No shipping rates available for the given addresses. Please check the addresses or try again later.">>,
                        req, <<ex>>)
           ELSE IF \E i \in DOMAIN ex.body.rates : PriceIsNull(ex.body.rates[i])
           THEN Outcome("TypeError", NoResult, <<>>, req, <<ex>>, <<>>)
           ELSE Outcome("return", WizardAction(Len(wizard) + 1), <<>>, req, <<ex>>,
                        <<NewWizard(self, oid, ex.body.rates)>>)

\* DeliveryCarrier.bobgo_rate_shipment for order oid when the API answers ex
bobgo_rate_shipment(self, oid, ex) ==
    LET o == order[oid]
        items == _prepare_order_items(o)
        url == urljoin(bobgo_get_api_base_url(self), AbsRef(<<"rates-at-checkout">>))
        req == <<Post(url, self.bobgo_api_key,
                      [items |-> Len(items),
                       handling_time |-> Max(0, self.bobgo_handling_time)])>>
    IN  IF o.order_line = <<>>
        THEN UserErr(<<"Cannot calculate shipping for empty order.">>, <<>>, <<>>)
        ELSE IF ~o.warehouse_partner
        THEN UserErr(<<"No warehouse configured for this order.">>, <<>>, <<>>)
        ELSE IF ~o.partner_shipping
        THEN UserErr(<<"No shipping address configured for this order.">>, <<>>, <<>>)
        ELSE IF items = <<>>
        THEN UserErr(<<"No shippable items found in the order.">>, <<>>, <<>>)
        ELSE CASE ex.kind = "Timeout" ->
                    UserErr(<<"Shipping rate request timed out. Please try again.">>,
                            req, <<ex>>)
               [] ex.kind = "ConnectionError" ->
                    UserErr(<<"Cannot connect to Bobgo API. Please check your internet connection and try again.">>,
                            req, <<ex>>)
               [] ex.kind = "RequestException" ->
                    UserErr(PyFormat(<<"Bobgo API connection failed: ", "%s">>,
                                     <<ExcStr(ex)>>).val, req, <<ex>>)
               [] OTHER ->
                    IF IsHttpError(ex.status) THEN RateHttpError(ex, req)
                    ELSE RateParsed(self, oid, ex, req)

CallOf(op, arg, r) ==
    [op |-> op, arg |-> arg, time |-> now, outcome |-> r.outcome,
     result |-> r.result, message |-> r.message, requests |-> r.requests,
     exchanges |-> r.exchanges, writes |-> <<>>]

RateExchanges ==
    { [kind |-> "Timeout"], [kind |-> "ConnectionError"], [kind |-> "RequestException"] }
    \cup { Response(s, b) : s \in {s \in Statuses : IsHttpError(s)}, b \in ErrorBodies }
    \cup { Response(200, b) :
             b \in { TextBody("RequestException"), TextBody("ValueError"),
                     [kind |-> "null"], NoRatesKeyBody, RatesBody(<<>>),
                     RatesBody(<<RateA, RateB>>) } }
    \cup { Response(201, RatesBody(<<RateA, RateB>>)) }

\* a direct call of bobgo_rate_shipment (the provider hook of the framework)
BobgoRateShipment ==
    \E oid \in OrderIds, ex \in RateExchanges :
        LET r == bobgo_rate_shipment(carrier, oid, ex)
        IN  /\ Len(wizard) + Len(r.created) <= MaxWizards
            /\ call' = CallOf("bobgo_rate_shipment", <<oid>>, r)
            /\ wizard' = wizard \o r.created
            /\ UNCHANGED <<carrier, picking, order, cache, now>>

InitHttp ==
    /\ carrier \in {c \in NewCarriers : /\ c.id = 12
                                         /\ c.delivery_type = "bobgo"
                                         /\ c.bobgo_api_key = "Bearer"
                                         /\ c.bobgo_test_mode}
    /\ picking = <<>>
    /\ order \in {f \in [OrderIds -> OrderKinds] : f[1] = GoodOrder}
    /\ wizard = <<>>
    /\ cache = {}
    /\ now = 0
    /\ call = NoCall

NextHttp == BobgoRateShipment

SpecHttp == InitHttp /\ [][NextHttp]_vars

\* ------------------------------------------------------- rate_shipment
RECURSIVE Digits(_)
Digits(n) ==
    IF n < 10 THEN <<ToString(n)>>
    ELSE Digits(n \div 10) \o <<ToString(n % 10)>>

CacheKey_NoSeparator(oid, cid) == <<"bobgo_rates_">> \o Digits(oid) \o Digits(cid)

\* f"bobgo_rates_{order.id}_{self.id}"
CacheKey(oid, cid) == <<"bobgo_rates_">> \o Digits(oid) \o <<"_">> \o Digits(cid)

LiveEntries(k) == {e \in cache : e.key = k /\ now < e.expires}

\* env.cache.get(cache_key): the value stored under the key, None when there
\* is none or its duration is over
CacheGet(k) ==
    IF LiveEntries(k) = {} THEN [hit |-> FALSE, value |-> NoResult]
    ELSE [hit |-> TRUE, value |-> (CHOOSE e \in LiveEntries(k) : TRUE).value]

\* env.cache.set(cache_key, value, duration)
CacheSet(k, v, duration) ==
    {e \in cache : e.key # k}
    \cup {[key |-> k, value |-> v, expires |-> now + duration]}

UnexpectedErrorResult ==
    [success |-> FALSE, price |-> 0,
     error_message |-> <<"Unexpected error while fetching shipping rates. Please try again.">>,
     warning_message |-> PyFalse]

SuperRateShipment ==
    [success |-> TRUE, price |-> 10, error_message |-> PyFalse,
     warning_message |-> PyFalse]

Effect(r, c, ch) ==
    [outcome |-> r.outcome, result |-> r.result, message |-> r.message,
     requests |-> r.requests, exchanges |-> r.exchanges, created |-> r.created,
     carrier |-> c, cache |-> ch]

\* DeliveryCarrier.rate_shipment for order oid when the API would answer ex
rate_shipment(oid, ex) ==
    LET cfg == bobgo_validate_configuration(carrier)
        self == [carrier EXCEPT !.bobgo_api_key = cfg.val]
        cache_key == CacheKey(oid, carrier.id)
        cached_rates == CacheGet(cache_key)
        r == bobgo_rate_shipment(self, oid, ex)
    IN  IF carrier.delivery_type # "bobgo"
        THEN Effect(Outcome("return", SuperRateShipment, <<>>, <<>>, <<>>, <<>>),
                    carrier, cache)
        ELSE IF ~cfg.ok
        THEN Effect(UserErr(cfg.val, <<>>, <<>>), carrier, cache)
        ELSE IF cached_rates.hit
        THEN Effect(Outcome("return", cached_rates.value, <<>>, <<>>, <<>>, <<>>),
                    self, cache)
        ELSE IF r.outcome = "return"
        THEN Effect(r, self, CacheSet(cache_key, r.result, BOBGO_CACHE_DURATION))
        ELSE IF r.outcome = "UserError"
        THEN Effect(r, self, cache)
        ELSE Effect(Outcome("return", UnexpectedErrorResult, <<>>, r.requests,
                            r.exchanges, <<>>), self, cache)

CacheExchanges ==
    { [kind |-> "Timeout"],
      Response(401, [kind |-> "object", keys |-> {"detail"}]),
      Response(404, [kind |-> "text", text |-> <<"<html>">>]),
      Response(200, [kind |-> "null"]),
      Response(200, RatesBody(<<>>)),
      Response(200, RatesBody(<<RateA, RateB>>)) }

RateShipment ==
    \E oid \in OrderIds, ex \in CacheExchanges :
        LET r == rate_shipment(oid, ex)
        IN  /\ Len(wizard) + Len(r.created) <= MaxWizards
            /\ call' = CallOf("rate_shipment", <<oid>>, r)
            /\ wizard' = wizard \o r.created
            /\ cache' = r.cache
            /\ carrier' = r.carrier
            /\ UNCHANGED <<picking, order, now>>

\* an earlier rating, by this or another carrier, whose answer is still cached
Priors == {<<11, 2>>, <<1, 2>>}

InitRate ==
    /\ carrier \in {c \in NewCarriers : c.bobgo_test_mode}
    /\ picking = <<>>
    /\ order \in {f \in [OrderIds -> {GoodOrder, SaleOrder(<<>>, TRUE, TRUE)}] :
                    f[1] = GoodOrder}
    /\ \/ wizard = <<>> /\ cache = {}
       \/ \E p \in Priors :
            /\ wizard = <<[order_id |-> p[1], carrier_id |-> p[2],
                           line_ids |-> <<WizardLine(RateC)>>]>>
            /\ cache = {[key |-> CacheKey(p[1], p[2]), value |-> WizardAction(1),
                         expires |-> BOBGO_CACHE_DURATION]}
    /\ now = 0
    /\ call = NoCall

NextRate == RateShipment \/ Tick

SpecRate == InitRate /\ [][NextRate]_vars

\* ------------------------------------------------------------ rate wizard
\* outcomes of sale.order.set_delivery_line(carrier, amount): it replaces the
\* delivery lines of the order by one new line and returns True, returns
\* True and leaves the lines as they are, returns a false value, or raises
SetDeliveryOutcomes == {"replaced", "kept", "false", "raise"}

DeliveryLineOf(c, amount) ==
    [is_delivery |-> TRUE, product_id |-> TRUE, name |-> <<c.name>>,
     price_unit |-> amount]

IsNotDelivery(l) == ~l.is_delivery

set_delivery_line(o, c, amount, sdl) ==
    IF sdl = "replaced"
    THEN [o EXCEPT !.order_line =
              SelectSeq(o.order_line, IsNotDelivery) \o <<DeliveryLineOf(c, amount)>>]
    ELSE o

ServiceDescription_AlwaysService(c, line) ==
    <<c.name, " - ", line.service_name>>

\* the description action_apply_rate writes on the delivery lines
ServiceDescription(c, line) ==
    IF line.service_name # PyFalse /\ line.service_name # "Unknown Service"
    THEN <<c.name, " - ", line.service_name>>
    ELSE <<c.name>>

\* delivery_line.write({'name': ..., 'price_unit': ...}) on the delivery lines
WriteDeliveryLines(o, name, price) ==
    [o EXCEPT !.order_line =
        [i \in DOMAIN o.order_line |->
            IF o.order_line[i].is_delivery
            THEN [o.order_line[i] EXCEPT !.name = name, !.price_unit = price]
            ELSE o.order_line[i]]]

ApplyFailed(e) == PyFormat(<<"Error applying shipping rate: ", "%s">>, <<e>>).val

WindowClose == [type |-> "ir.actions.act_window_close"]

\* ChooseBobgoRateLine.action_apply_rate on line li of wizard wid; when
\* the logging fails the delivery lines have been written already
action_apply_rate(wid, li, sdl, log_ok) ==
    LET w == wizard[wid]
        line == w.line_ids[li]
        o == order[w.order_id]
        set == set_delivery_line(o, carrier, line.total_price, sdl)
        written == WriteDeliveryLines(set, ServiceDescription(carrier, line),
                                      line.total_price)
        fail(msg) == [outcome |-> "UserError", result |-> NoResult,
                      message |-> msg, order |-> o]
    IN  IF w.order_id \notin OrderIds \/ w.carrier_id \notin CarrierIds
        THEN fail(<<"Invalid rate selection data.">>)
        ELSE IF sdl = "raise"
        THEN fail(ApplyFailed(<<"<set_delivery_line>">>))
        ELSE IF sdl = "false"
        THEN fail(ApplyFailed(<<"Failed to apply shipping rate to the order.">>))
        ELSE IF ~log_ok
        THEN [fail(ApplyFailed(<<"<ir.logging>">>)) EXCEPT !.order = written]
        ELSE [outcome |-> "return", result |-> WindowClose, message |-> <<>>,
              order |-> written]

ActionApplyRate ==
    \E wid \in DOMAIN wizard, sdl \in SetDeliveryOutcomes, log_ok \in BOOLEAN :
      \E li \in DOMAIN wizard[wid].line_ids :
        LET r == action_apply_rate(wid, li, sdl, log_ok)
        IN  /\ call' = [op |-> "action_apply_rate", arg |-> <<wid, li>>,
                        time |-> now, outcome |-> r.outcome, result |-> r.result,
                        message |-> r.message, requests |-> <<>>,
                        exchanges |-> <<>>, writes |-> <<>>]
            /\ order' = [order EXCEPT ![wizard[wid].order_id] = r.order]
            /\ UNCHANGED <<carrier, picking, wizard, cache, now>>

\* a rate whose service name is empty
RateD ==
    [keys |-> {"service_name", "total_price", "service_level_code", "provider_slug"},
     nulls |-> {}, service_name |-> PyFalse, total_price |-> 75,
     service_level_code |-> "STD", provider_slug |-> "demo"]

InitWizard ==
    /\ carrier \in {c \in NewCarriers : /\ c.id = 12
                                         /\ c.delivery_type = "bobgo"
                                         /\ c.bobgo_api_key = "Bearer"
                                         /\ c.bobgo_test_mode}
    /\ picking = <<>>
    /\ order \in [OrderIds -> {GoodOrder,
                               SaleOrder(<<OldDeliveryLine, ProductLine>>, TRUE, TRUE)}]
    /\ \E r1 \in {<<RateA, RateB>>, <<RateD, RateC>>}, r2 \in {<<RateA>>, <<RateB>>} :
         wizard = <<NewWizard(carrier, 1, r1), NewWizard(carrier, 11, r2)>>
    /\ cache = {}
    /\ now = 0
    /\ call = NoCall

NextWizard == ActionApplyRate

SpecWizard == InitWizard /\ [][NextWizard]_vars

\* ---------------------------------------------------------------- booking
PickingIds == {1, 2}

PickingName(pid) == <<"WH/OUT/" \o ToString(pid)>>

\* Python truth value of a Char field
Falsy(v) == v \in {PyFalse, PyNone, ""}

ShipmentBody(sid, ref) ==
    [kind |-> "object", keys |-> {"id", "tracking_reference"},
     id |-> sid, tracking_reference |-> ref]
ShipmentBodyNoTracking(sid) ==
    [kind |-> "object", keys |-> {"id"}, id |-> sid, tracking_reference |-> PyNone]

Unused == [kind |-> "unused"]

\* what the API answers to the rates request and to the shipment request of
\* one picking
Scenarios ==
    { [rate |-> [kind |-> "Timeout"], ship |-> Unused],
      [rate |-> Response(200, RatesBody(<<>>)), ship |-> Unused],
      [rate |-> Response(200, RatesBody(<<RateA, RateC>>)),
       ship |-> Response(400, [kind |-> "object", keys |-> {"detail"}])],
      [rate |-> Response(200, RatesBody(<<RateN>>)),
       ship |-> Response(200, ShipmentBody("S1", "T1"))],
      [rate |-> Response(200, RatesBody(<<RateA, RateC>>)),
       ship |-> Response(200, ShipmentBody("S1", "T1"))],
      [rate |-> Response(200, RatesBody(<<RateA, RateC>>)),
       ship |-> Response(200, ShipmentBody("S2", "T2"))],
      [rate |-> Response(201, RatesBody(<<RateB>>)),
       ship |-> Response(200, ShipmentBodyNoTracking("S3"))] }

\* an exchange, marked with the picking it was made for
For(ex, pid) ==
    [k \in DOMAIN ex \cup {"picking"} |-> IF k = "picking" THEN pid ELSE ex[k]]

\* str(e) of what a failed exchange raises in bobgo_send_shipping; <<>> when
\* the answer is a parsed JSON object
ExchangeError(ex) ==
    CASE ex.kind # "response" -> ExcStr(ex)
      [] IsHttpError(ex.status) -> <<"<HTTPError ", ToString(ex.status), ">">>
      [] ex.body.kind = "text" -> <<"<JSONDecodeError>">>
      [] ex.body.kind = "null" -> <<"<AttributeError>">>
      [] OTHER -> <<>>

\* DeliveryCarrier._prepare_shipment_rate_payload: the payload or the UserError
_prepare_shipment_rate_payload(p, pid) ==
    IF ~p.warehouse_partner
    THEN [ok |-> FALSE, val |-> <<"No warehouse partner configured for this picking.">>]
    ELSE IF ~p.partner_id
    THEN [ok |-> FALSE, val |-> <<"No delivery partner configured for this picking.">>]
    ELSE [ok |-> TRUE, val |-> [kind |-> "rates", picking |-> pid, timeout |-> 10000]]

\* DeliveryCarrier._prepare_shipment_payload
_prepare_shipment_payload(pid, rate) ==
    [kind |-> "shipment", picking |-> pid, timeout |-> 20000,
     service_level_code |-> DictGet(rate, "service_level_code", PyNone),
     provider_slug |-> DictGet(rate, "provider_slug", PyNone)]

BookFailed(e, requests, exchanges, written) ==
    [ok |-> FALSE, error |-> e, requests |-> requests, exchanges |-> exchanges,
     written |-> written, entry |-> <<>>]

SelectedRate_Last(rates) == rates[Len(rates)]

\* selected_rate = rates_data['rates'][0]
SelectedRate(rates) == rates[1]

ShipmentValues_IdAsTracking(body) ==
    [bobgo_shipment_id |-> DictGet(body, "id", PyNone),
     carrier_tracking_ref |-> DictGet(body, "id", PyNone)]

\* the values picking.write receives in bobgo_send_shipping
ShipmentValues(body) ==
    [bobgo_shipment_id |-> DictGet(body, "id", PyNone),
     carrier_tracking_ref |-> DictGet(body, "tracking_reference", PyNone)]

\* the body of the loop of bobgo_send_shipping for one picking
BookOne(self, p, pid, sc) ==
    LET base_url == bobgo_get_api_base_url(self)
        rate_payload == _prepare_shipment_rate_payload(p, pid)
        rate_req == Post(urljoin(base_url, AbsRef(<<"rates">>)),
                         self.bobgo_api_key, rate_payload.val)
        rate_ex == For(sc.rate, pid)
        selected_rate == SelectedRate(sc.rate.body.rates)
        ship_req == Post(urljoin(base_url, AbsRef(<<"shipments">>)),
                         self.bobgo_api_key,
                         _prepare_shipment_payload(pid, selected_rate))
        ship_ex == For(sc.ship, pid)
        values == ShipmentValues(sc.ship.body)
    IN  IF ~rate_payload.ok
        THEN BookFailed(rate_payload.val, <<>>, <<>>, <<>>)
        ELSE IF ExchangeError(sc.rate) # <<>>
        THEN BookFailed(ExchangeError(sc.rate), <<rate_req>>, <<rate_ex>>, <<>>)
        ELSE IF "rates" \notin sc.rate.body.keys \/ sc.rate.body.rates = <<>>
        THEN BookFailed(<<"No shipment rates available for this delivery.">>,
                        <<rate_req>>, <<rate_ex>>, <<>>)
        ELSE IF ExchangeError(sc.ship) # <<>>
        THEN BookFailed(ExchangeError(sc.ship), <<rate_req, ship_req>>,
                        <<rate_ex, ship_ex>>, <<>>)
        ELSE IF PriceIsNull(selected_rate)
        THEN \* float(None) fails after picking.write
             BookFailed(<<"<TypeError>">>, <<rate_req, ship_req>>,
                        <<rate_ex, ship_ex>>, <<values>>)
        ELSE [ok |-> TRUE, error |-> <<>>, requests |-> <<rate_req, ship_req>>,
              exchanges |-> <<rate_ex, ship_ex>>, written |-> <<values>>,
              entry |-> <<[exact_price |-> DictGet(selected_rate, "total_price", 0),
                           tracking_number |-> values.carrier_tracking_ref]>>]

WritePicking(pk, pid, written) ==
    IF written = <<>> THEN pk
    ELSE [pk EXCEPT ![pid].bobgo_shipment_id = written[1].bobgo_shipment_id,
                    ![pid].carrier_tracking_ref = written[1].carrier_tracking_ref]

\* DeliveryCarrier.bobgo_send_shipping: the loop over the pickings from
\* position i, acc holding res, the requests so far and the pickings
RECURSIVE bobgo_send_shipping(_, _, _, _, _)
bobgo_send_shipping(self, pks, scs, i, acc) ==
    IF i > Len(pks)
    THEN [outcome |-> "return", result |-> PyList(acc.res), message |-> <<>>,
          requests |-> acc.requests, exchanges |-> acc.exchanges,
          picking |-> acc.picking, carrier |-> self]
    ELSE LET pid == pks[i]
             cfg == bobgo_validate_configuration(self)
             valid == [self EXCEPT !.bobgo_api_key = cfg.val]
             b == IF cfg.ok THEN BookOne(valid, acc.picking[pid], pid, scs[i])
                  ELSE BookFailed(cfg.val, <<>>, <<>>, <<>>)
             next == [res |-> acc.res \o b.entry,
                      requests |-> acc.requests \o b.requests,
                      exchanges |-> acc.exchanges \o b.exchanges,
                      picking |-> WritePicking(acc.picking, pid, b.written)]
         IN  IF b.ok
             THEN bobgo_send_shipping(valid, pks, scs, i + 1, next)
             ELSE [outcome |-> "UserError", result |-> NoResult,
                   message |-> PyFormat(<<"Failed to book shipment for ", "%s",
                                          ": ", "%s">>,
                                        <<PickingName(pid), b.error>>).val,
                   requests |-> next.requests, exchanges |-> next.exchanges,
                   picking |-> next.picking,
                   carrier |-> IF cfg.ok THEN valid ELSE self]

\* the recordsets a call can receive: pickings without repetition
Recordsets ==
    {<<>>} \cup { <<a>> : a \in PickingIds }
    \cup (IF MaxPickings >= 2
          THEN { s \in PickingIds \X PickingIds : s[1] # s[2] }
          ELSE {})

BobgoSendShipping ==
    \E pks \in Recordsets :
      \E scs \in [1..Len(pks) -> Scenarios] :
        LET r == bobgo_send_shipping(carrier, pks, scs, 1,
                     [res |-> <<>>, requests |-> <<>>, exchanges |-> <<>>,
                      picking |-> picking])
        IN  /\ call' = [op |-> "bobgo_send_shipping", arg |-> pks, time |-> now,
                        outcome |-> r.outcome, result |-> r.result,
                        message |-> r.message, requests |-> r.requests,
                        exchanges |-> r.exchanges, writes |-> <<>>]
            /\ picking' = r.picking
            /\ carrier' = r.carrier
            /\ UNCHANGED <<order, wizard, cache, now>>

\* ------------------------------------------------------------ cancellation
CancelExchanges ==
    { [kind |-> "Timeout"],
      Response(200, [kind |-> "object", keys |-> {}]),
      Response(404, [kind |-> "text", text |-> <<"<html>">>]) }

CancelResult_AnySuccess(successful, failed) == PyBool(Len(successful) > 0)

\* return len(failed_cancellations) == 0
CancelResult(successful, failed) == PyBool(Len(failed) = 0)

CancelFailed_Forget(acc, pid) == acc

\* failed_cancellations.append(picking.name), after which the loop goes on
CancelFailed(acc, pid) == [acc EXCEPT !.failed = @ \o <<PickingName(pid)>>]

CancelWrite_RefOnly(p) == [p EXCEPT !.carrier_tracking_ref = PyFalse]

\* picking.write of a cancelled shipment
CancelWrite(p) ==
    [p EXCEPT !.carrier_tracking_ref = PyFalse, !.bobgo_shipment_id = PyFalse]

\* DeliveryCarrier.bobgo_cancel_shipment: the loop over the pickings from
\* position i, acc holding the two lists, the requests and the pickings
RECURSIVE bobgo_cancel_shipment(_, _, _, _)
bobgo_cancel_shipment(pks, exs, i, acc) ==
    IF i > Len(pks)
    THEN [outcome |-> "return",
          result |-> CancelResult(acc.successful, acc.failed),
          requests |-> acc.requests, exchanges |-> acc.exchanges,
          picking |-> acc.picking, successful |-> acc.successful,
          failed |-> acc.failed]
    ELSE LET pid == pks[i]
             p == acc.picking[pid]
             url == urljoin(bobgo_get_api_base_url(carrier),
                            AbsRef(<<"shipments", "cancel">>))
             req == Post(url, carrier.bobgo_api_key,
                         [tracking_reference |-> p.carrier_tracking_ref])
             sent == [acc EXCEPT !.requests = @ \o <<req>>,
                                 !.exchanges = @ \o <<For(exs[i], pid)>>]
         IN  IF Falsy(p.carrier_tracking_ref)
             THEN bobgo_cancel_shipment(pks, exs, i + 1, CancelFailed(acc, pid))
             ELSE IF exs[i].kind = "response" /\ exs[i].status = 200
             THEN bobgo_cancel_shipment(pks, exs, i + 1,
                      [sent EXCEPT !.successful = @ \o <<PickingName(pid)>>,
                                   !.picking[pid] = CancelWrite(p)])
             ELSE bobgo_cancel_shipment(pks, exs, i + 1, CancelFailed(sent, pid))

BobgoCancelShipment ==
    \E pks \in Recordsets :
      \E exs \in [1..Len(pks) -> CancelExchanges] :
        LET r == bobgo_cancel_shipment(pks, exs, 1,
                     [successful |-> <<>>, failed |-> <<>>, requests |-> <<>>,
                      exchanges |-> <<>>, picking |-> picking])
        IN  /\ call' = [op |-> "bobgo_cancel_shipment", arg |-> pks, time |-> now,
                        outcome |-> r.outcome, result |-> r.result,
                        message |-> <<>>, requests |-> r.requests,
                        exchanges |-> r.exchanges, writes |-> <<>>,
                        successful |-> r.successful, failed |-> r.failed]
            /\ picking' = r.picking
            /\ UNCHANGED <<carrier, order, wizard, cache, now>>

\* ---------------------------------------------------------------- tracking
bobgo_get_tracking_link_Results(self, p) ==
    PyStr("https://track.bobgo.co.za/results/" \o p.carrier_tracking_ref)

\* DeliveryCarrier.bobgo_get_tracking_link
bobgo_get_tracking_link(self, p) ==
    IF ~Falsy(p.carrier_tracking_ref)
    THEN LET base_url == IF self.bobgo_test_mode THEN "sandbox.bobgo.co.za"
                         ELSE "bobgo.co.za"
         IN  PyStr("https://" \o base_url \o "/tracking/" \o p.carrier_tracking_ref)
    ELSE PyBool(FALSE)

BobgoGetTrackingLink ==
    \E pid \in PickingIds :
        /\ call' = Returned("bobgo_get_tracking_link", <<pid>>,
                            bobgo_get_tracking_link(carrier, picking[pid]),
                            <<>>, <<>>, <<>>)
        /\ UNCHANGED <<carrier, picking, order, wizard, cache, now>>

NewPicking(partner) ==
    [carrier_tracking_ref |-> PyFalse, bobgo_shipment_id |-> PyFalse,
     warehouse_partner |-> TRUE, partner_id |-> partner]

Init ==
    /\ carrier \in {c \in NewCarriers : /\ c.id = 12
                                         /\ c.delivery_type = "bobgo"
                                         /\ c.bobgo_api_key # "raw"}
    /\ picking \in {f \in [PickingIds -> {NewPicking(TRUE), NewPicking(FALSE)}] :
                      f[1] = NewPicking(TRUE)}
    /\ order = <<>>
    /\ wizard = <<>>
    /\ cache = {}
    /\ now = 0
    /\ call = NoCall

Next == BobgoSendShipping \/ BobgoCancelShipment \/ BobgoGetTrackingLink

Spec == Init /\ [][Next]_vars

\* ============================================================= properties
LastExchange == call.exchanges[Len(call.exchanges)]

\* the exchange of a rate request failed in one of the ways C1 lists
RateExchangeFailed(ex) ==
    \/ ex.kind # "response"
    \/ IsHttpError(ex.status)
    \/ ex.body.kind = "text"
    \/ /\ ex.body.kind = "object"
       /\ ("rates" \notin ex.body.keys \/ ex.body.rates = <<>>)

\* C1: once bobgo_rate_shipment has sent the rate request, a failed exchange
\* (timeout, connection error, HTTP error status, other request failure,
\* invalid JSON, no rates) ends in a UserError, never in another exception
\* and never in a normal return.
C1_RateFailureIsUserError ==
    ( /\ call.op = "bobgo_rate_shipment"
      /\ call.requests # <<>>
      /\ RateExchangeFailed(LastExchange) )
    => call.outcome = "UserError"

\* the message C2 assigns to a status code and an error detail
ExpectedHttpMessage(status, detail) ==
    CASE status = 400 -> <<"Bad request to Bobgo API: ">> \o detail
      [] status = 401 -> <<"Authentication failed. Please check your Bobgo API key.">>
      [] status = 403 -> <<"Access forbidden. Your API key may not have the required permissions.">>
      [] status = 429 -> <<"Rate limit exceeded. Please try again later.">>
      [] status = 500 -> <<"Bobgo API server error. Please try again later.">>
      [] status = 502 -> <<"Bobgo API is temporarily unavailable. Please try again later.">>
      [] status = 503 -> <<"Bobgo API service is temporarily overloaded. Please try again later.">>
      [] OTHER -> <<"Bobgo API returned error (HTTP ", ToString(status), "): ">> \o detail

\* C2: for every HTTP error status and error detail, bobgo_rate_shipment
\* raises a UserError whose message is the text the table assigns to the
\* status (with the detail for 400 and for the codes outside the table).
C2_HttpErrorMessage ==
    ( /\ call.op = "bobgo_rate_shipment"
      /\ call.requests # <<>>
      /\ LastExchange.kind = "response"
      /\ IsHttpError(LastExchange.status)
      /\ _extract_error_detail(LastExchange.body).ok )
    => /\ call.outcome = "UserError"
       /\ call.message = ExpectedHttpMessage(LastExchange.status,
                             _extract_error_detail(LastExchange.body).val)

Answered200 ==
    /\ call.exchanges # <<>>
    /\ LastExchange.kind = "response"
    /\ LastExchange.status = 200

\* C6: after every call of bobgo_test_connection the last-test time is set
\* (to the time of the call), the connection status is True exactly when the
\* API answered 200, the call returns the success notification exactly when
\* the status is True and raises a UserError otherwise.
C6_ConnectionStatus ==
    call.op = "bobgo_test_connection"
    => /\ carrier.bobgo_last_connection_test # NoTime
       /\ carrier.bobgo_last_connection_test = call.time
       /\ carrier.bobgo_connection_status = Answered200
       /\ IF carrier.bobgo_connection_status
          THEN /\ call.outcome = "return"
               /\ call.result.type = "ir.actions.client"
               /\ call.result.tag = "display_notification"
               /\ call.result.params.type = "success"
          ELSE call.outcome = "UserError"

\* a test made after time has passed that was answered with HTTP 500
C6_Witness ==
    /\ call.op = "bobgo_test_connection"
    /\ call.time > 0
    /\ call.outcome = "UserError"
    /\ call.exchanges # <<>>
    /\ LastExchange.kind = "response"
    /\ LastExchange.status = 500
    /\ ~carrier.bobgo_connection_status

\* the URL C7 expects: the base URL of the mode followed by the endpoint path
ExpectedBase ==
    IF carrier.bobgo_test_mode THEN "https://api.sandbox.bobgo.co.za"
    ELSE "https://api.bobgo.co.za"

ExpectedPath(op, i) ==
    CASE op \in {"rate_shipment", "bobgo_rate_shipment", "bobgo_test_connection"} ->
           <<"v2", "rates-at-checkout">>
      [] op = "bobgo_send_shipping" ->
           IF i % 2 = 1 THEN <<"v2", "rates">> ELSE <<"v2", "shipments">>
      [] OTHER -> <<"v2", "shipments", "cancel">>

\* C7: every request is a POST to <base>/<endpoint>, the /v2 prefix of the
\* base URL included.
C7_RequestUrls ==
    \A i \in DOMAIN call.requests :
        /\ call.requests[i].method = "POST"
        /\ call.requests[i].url.origin = ExpectedBase
        /\ call.requests[i].url.path = ExpectedPath(call.op, i)

RateKeys == {"success", "price", "error_message", "warning_message"}

\* C9: for a bobgo carrier rate_shipment raises a UserError or returns a rate
\* result (success, price, error_message, warning_message).
C9_RateResultShape ==
    (call.op = "rate_shipment" /\ carrier.delivery_type = "bobgo")
    => \/ call.outcome = "UserError"
       \/ call.outcome = "return" /\ RateKeys \subseteq DOMAIN call.result

\* a response stored for order oid and this carrier within the last
\* BOBGO_CACHE_DURATION seconds
CachedFor(oid, e) ==
    /\ e \in cache
    /\ e.key = CacheKey(oid, carrier.id)
    /\ e.expires - BOBGO_CACHE_DURATION <= now
    /\ now < e.expires

IsRatingOf(result, oid) ==
    /\ "res_id" \in DOMAIN result
    /\ result.res_id \in DOMAIN wizard'
    /\ wizard'[result.res_id].order_id = oid
    /\ wizard'[result.res_id].carrier_id = carrier.id

\* a step that is a call rate_shipment(order oid) on a configured bobgo carrier
RateShipmentStep(oid) ==
    /\ now' = now
    /\ call'.op = "rate_shipment"
    /\ call'.arg = <<oid>>
    /\ carrier.delivery_type = "bobgo"
    /\ carrier.bobgo_api_key # PyFalse

\* C8: with a response cached for the (order, carrier) pair, rate_shipment
\* returns it (a rating of that order by that carrier) and sends no request;
\* with none cached it sends the one rate request of a ratable order and
\* stores what bobgo_rate_shipment returned under the pair's key for 300
\* seconds, so that a call within that time is answered from the cache.
C8_CacheFirst ==
    [][ \A oid \in OrderIds :
          RateShipmentStep(oid) =>
            IF \E e \in cache : CachedFor(oid, e)
            THEN /\ call'.outcome = "return"
                 /\ \E e \in cache : CachedFor(oid, e) /\ call'.result = e.value
                 /\ IsRatingOf(call'.result, oid)
                 /\ call'.requests = <<>>
                 /\ cache' = cache
            ELSE /\ order[oid] = GoodOrder => Len(call'.requests) = 1
                 /\ Len(call'.requests) <= 1
                 /\ IF call'.outcome = "return" /\ "res_id" \in DOMAIN call'.result
                    THEN /\ Len(call'.requests) = 1
                         /\ IsRatingOf(call'.result, oid)
                         /\ [key |-> CacheKey(oid, carrier.id),
                             value |-> call'.result,
                             expires |-> now + 300] \in cache'
                    ELSE cache' = cache
      ]_vars

\* a second call for the same order, 150 seconds after the call that sent the
\* request, answered from the cache without a request
C8_Witness ==
    /\ call.op = "rate_shipment"
    /\ call.outcome = "return"
    /\ call.requests = <<>>
    /\ call.time = 150
    /\ call.result = WizardAction(2)
    /\ \E e \in cache : e.value = call.result /\ e.expires = 300

AppliedLine == wizard[call.arg[1]].line_ids[call.arg[2]]
AppliedOrder == order[wizard[call.arg[1]].order_id]

\* the name C3 expects on the delivery lines
ExpectedLineName(line) ==
    IF line.service_name \in {PyFalse, "Unknown Service"} THEN <<"Bobgo">>
    ELSE <<"Bobgo", " - ", line.service_name>>

\* C3: when action_apply_rate returns normally it returns the window-close
\* action and every delivery line of the wizard's order carries the selected
\* line's total_price and the carrier name, followed by " - <service_name>"
\* when the service name is set and is not "Unknown Service".
C3_ApplyRate ==
    (call.op = "action_apply_rate" /\ call.outcome = "return")
    => /\ call.result = [type |-> "ir.actions.act_window_close"]
       /\ \A i \in DOMAIN AppliedOrder.order_line :
            AppliedOrder.order_line[i].is_delivery
            => /\ AppliedOrder.order_line[i].price_unit = AppliedLine.total_price
               /\ AppliedOrder.order_line[i].name = ExpectedLineName(AppliedLine)

\* a rate without service name and price applied: the order has a delivery
\* line named after the carrier alone, at price 0
C3_Witness ==
    /\ call.op = "action_apply_rate"
    /\ call.outcome = "return"
    /\ AppliedLine.service_name = "Unknown Service"
    /\ \E i \in DOMAIN AppliedOrder.order_line :
         /\ AppliedOrder.order_line[i].is_delivery
         /\ AppliedOrder.order_line[i].name = <<"Bobgo">>
         /\ AppliedOrder.order_line[i].price_unit = 0

\* the rates response and the shipment response obtained for the picking at
\* position i of a booking that returned
RatesOf(i) == call.exchanges[2 * i - 1].body.rates
ShipmentOf(i) == call.exchanges[2 * i].body

\* the rate the shipment request of position i was made with
IsRateUsed(r, i) ==
    /\ DictGet(r, "service_level_code", PyNone)
         = call.requests[2 * i].payload.service_level_code
    /\ DictGet(r, "provider_slug", PyNone) = call.requests[2 * i].payload.provider_slug

\* C4: when bobgo_send_shipping returns, the result has one entry per picking
\* in input order; each picking carries the id and the tracking_reference of
\* the shipment response obtained for it, its entry carries the picking's
\* tracking reference and the total_price of the rate used for it (0.0 when
\* the rate has none).
C4_SendShippingResult ==
    (call.op = "bobgo_send_shipping" /\ call.outcome = "return")
    => /\ Len(call.result.list) = Len(call.arg)
       /\ Len(call.exchanges) = 2 * Len(call.arg)
       /\ \A i \in DOMAIN call.arg :
            LET p == picking[call.arg[i]]
                entry == call.result.list[i]
            IN  /\ call.exchanges[2 * i].picking = call.arg[i]
                /\ p.bobgo_shipment_id = DictGet(ShipmentOf(i), "id", PyNone)
                /\ p.carrier_tracking_ref
                     = DictGet(ShipmentOf(i), "tracking_reference", PyNone)
                /\ entry.tracking_number = p.carrier_tracking_ref
                /\ \E k \in DOMAIN RatesOf(i) :
                     /\ IsRateUsed(RatesOf(i)[k], i)
                     /\ entry.exact_price = DictGet(RatesOf(i)[k], "total_price", 0)

\* two pickings booked in one call, each with its own shipment
C4_Witness ==
    /\ call.op = "bobgo_send_shipping"
    /\ call.outcome = "return"
    /\ call.arg = <<2, 1>>
    /\ picking[2].carrier_tracking_ref = "T1"
    /\ picking[1].carrier_tracking_ref = "T2"
    /\ call.result.list[1].exact_price = 250

\* C5: bobgo_cancel_shipment returns True exactly when every picking passed
\* to it had a tracking reference and its cancel request was answered with
\* HTTP 200; one picking without reference, with another status or with a
\* failed request makes the result False.
C5_CancelResult ==
    [][ call'.op = "bobgo_cancel_shipment" =>
          /\ call'.outcome = "return"
          /\ call'.result =
               [bool |-> \A i \in DOMAIN call'.arg :
                   /\ ~(picking[call'.arg[i]].carrier_tracking_ref \in {PyFalse, PyNone})
                   /\ \E j \in DOMAIN call'.exchanges :
                        /\ call'.exchanges[j].picking = call'.arg[i]
                        /\ call'.exchanges[j].kind = "response"
                        /\ call'.exchanges[j].status = 200]
      ]_vars

\* a call for two booked pickings: one cancelled, the other answered 404
C5_Witness ==
    /\ call.op = "bobgo_cancel_shipment"
    /\ Len(call.arg) = 2
    /\ call.result = [bool |-> FALSE]
    /\ Len(call.exchanges) = 2
    /\ call.exchanges[1].kind = "response" /\ call.exchanges[1].status = 200
    /\ call.exchanges[2].kind = "response" /\ call.exchanges[2].status = 404

\* C10: bobgo_get_tracking_link returns False for a picking without tracking
\* reference, else the sandbox or the production tracking URL of the reference.
C10_TrackingLink ==
    call.op = "bobgo_get_tracking_link"
    => LET ref == picking[call.arg[1]].carrier_tracking_ref
       IN  IF ref \in {PyFalse, PyNone}
           THEN call.result = [bool |-> FALSE]
           ELSE IF carrier.bobgo_test_mode
           THEN call.result = [str |-> "https://sandbox.bobgo.co.za/tracking/" \o ref]
           ELSE call.result = [str |-> "https://bobgo.co.za/tracking/" \o ref]

\* the link of a booked picking of a carrier that is not in test mode
C10_Witness ==
    /\ call.op = "bobgo_get_tracking_link"
    /\ ~carrier.bobgo_test_mode
    /\ call.result = [str |-> "https://bobgo.co.za/tracking/T2"]

\* the rates exchange a booking made just before its request number j
RatesBefore(j) == call.exchanges[j - 1]

\* a rates exchange that lets the booking go on: a status that
\* raise_for_status accepts and a JSON object with a non-empty rates list
RatesSucceeded(ex) ==
    /\ ex.kind = "response"
    /\ ~IsHttpError(ex.status)
    /\ ex.body.kind = "object"
    /\ "rates" \in ex.body.keys
    /\ ex.body.rates # <<>>

\* C11: in bobgo_send_shipping every shipment request directly follows the
\* rates request of the same picking, that rates request was answered with a
\* success status and a non-empty rates list, and the shipment request carries
\* the provider_slug and the service_level_code of the first rate of the list;
\* a picking whose rates request failed or returned no rates gets no shipment
\* request.
C11_ShipmentAfterRates ==
    call.op = "bobgo_send_shipping"
    => /\ \A j \in DOMAIN call.requests :
            call.requests[j].payload.kind = "shipment"
            => /\ j > 1
               /\ call.requests[j - 1].payload.kind = "rates"
               /\ call.requests[j - 1].payload.picking
                    = call.requests[j].payload.picking
               /\ RatesBefore(j).picking = call.requests[j].payload.picking
               /\ RatesSucceeded(RatesBefore(j))
               /\ call.requests[j].payload.service_level_code
                    = DictGet(RatesBefore(j).body.rates[1], "service_level_code", PyNone)
               /\ call.requests[j].payload.provider_slug
                    = DictGet(RatesBefore(j).body.rates[1], "provider_slug", PyNone)
       /\ \A j \in DOMAIN call.requests :
            (call.requests[j].payload.kind = "rates"
             /\ ~RatesSucceeded(call.exchanges[j]))
            => \A k \in DOMAIN call.requests :
                 ~(/\ call.requests[k].payload.kind = "shipment"
                   /\ call.requests[k].payload.picking
                        = call.requests[j].payload.picking)

\* a booking of two pickings: the first got the rates Economy and Express and
\* its shipment was requested with the first of them, the second got no rates
\* and no shipment request
C11_Witness ==
    /\ call.op = "bobgo_send_shipping"
    /\ Len(call.arg) = 2
    /\ Len(call.requests) = 3
    /\ call.exchanges[1].body.rates = <<RateA, RateC>>
    /\ call.requests[2].payload.kind = "shipment"
    /\ call.requests[2].payload.service_level_code = "ECO"
    /\ call.requests[2].payload.provider_slug = "demo"
    /\ call.requests[3].payload.kind = "rates"
    /\ call.exchanges[3].kind = "response"
    /\ call.exchanges[3].body.rates = <<>>

\* the positions of the exchanges a cancellation made for a picking
CancelExchangesOf(c, pid) ==
    { j \in DOMAIN c.exchanges : c.exchanges[j].picking = pid }

\* C12: bobgo_cancel_shipment never raises; a picking without tracking
\* reference gets no request and is counted as failed; every picking with a
\* tracking reference gets its cancel request, whatever happened to the
\* requests of the pickings before it in the list.
C12_CancelNeverRaises ==
    [][ call'.op = "bobgo_cancel_shipment" =>
          /\ call'.outcome = "return"
          /\ Len(call'.requests) = Len(call'.exchanges)
          /\ \A i \in DOMAIN call'.arg :
               LET pid == call'.arg[i]
                   sent == CancelExchangesOf(call', pid)
               IN  IF picking[pid].carrier_tracking_ref \in {PyFalse, PyNone, ""}
                   THEN /\ sent = {}
                        /\ \E k \in DOMAIN call'.failed :
                             call'.failed[k] = PickingName(pid)
                   ELSE /\ Cardinality(sent) = 1
                        /\ \A j \in sent :
                             call'.requests[j].payload.tracking_reference
                               = picking[pid].carrier_tracking_ref
      ]_vars

\* a cancellation of two booked pickings: the request of the first timed out,
\* the request of the second was sent all the same and answered
C12_Witness ==
    /\ call.op = "bobgo_cancel_shipment"
    /\ call.outcome = "return"
    /\ Len(call.arg) = 2
    /\ Len(call.failed) = 1
    /\ Len(call.exchanges) = 2
    /\ call.exchanges[1].kind = "Timeout"
    /\ call.exchanges[1].picking = call.arg[1]
    /\ call.exchanges[2].kind = "response"
    /\ call.exchanges[2].picking = call.arg[2]

\* C13: after bobgo_cancel_shipment a picking whose cancel request was
\* answered with HTTP 200 has carrier_tracking_ref and bobgo_shipment_id
\* cleared; every other picking passed to the call (no tracking reference,
\* another status, timeout) keeps both values.
C13_CancelClears ==
    [][ call'.op = "bobgo_cancel_shipment" =>
          \A i \in DOMAIN call'.arg :
            LET pid == call'.arg[i]
                answered200 ==
                    \E j \in CancelExchangesOf(call', pid) :
                       /\ call'.exchanges[j].kind = "response"
                       /\ call'.exchanges[j].status = 200
            IN  IF answered200
                THEN /\ picking'[pid].carrier_tracking_ref = PyFalse
                     /\ picking'[pid].bobgo_shipment_id = PyFalse
                ELSE /\ picking'[pid].carrier_tracking_ref
                          = picking[pid].carrier_tracking_ref
                     /\ picking'[pid].bobgo_shipment_id = picking[pid].bobgo_shipment_id
      ]_vars

\* a cancellation of two pickings: the first, answered 200, is cleared; the
\* second, answered 404, keeps its shipment
C13_Witness ==
    /\ call.op = "bobgo_cancel_shipment"
    /\ Len(call.arg) = 2
    /\ Len(call.exchanges) = 2
    /\ call.exchanges[1].kind = "response" /\ call.exchanges[1].status = 200
    /\ picking[call.arg[1]].carrier_tracking_ref = PyFalse
    /\ picking[call.arg[1]].bobgo_shipment_id = PyFalse
    /\ call.exchanges[2].kind = "response" /\ call.exchanges[2].status = 404
    /\ picking[call.arg[2]].carrier_tracking_ref = "T2"
    /\ picking[call.arg[2]].bobgo_shipment_id = "S2"

\* the message of the UserError of a booking that failed at the picking pid
NamesPicking(message, pid) ==
    /\ Len(message) > 2
    /\ SubSeq(message, 1, 2) = <<"Failed to book shipment for ">> \o PickingName(pid)

\* C14: when a step of booking a picking fails, bobgo_send_shipping raises a
\* UserError whose message names that picking, that picking is left as it
\* was, there is no result list and no request is sent for the pickings after
\* it in the list; the call returns only when no step failed.
C14_BookingFailure ==
    [][ call'.op = "bobgo_send_shipping" =>
          IF call'.outcome = "return"
          THEN /\ Len(call'.exchanges) = 2 * Len(call'.arg)
               /\ \A j \in DOMAIN call'.exchanges :
                    ExchangeError(call'.exchanges[j]) = <<>>
          ELSE /\ call'.outcome = "UserError"
               /\ call'.result = NoResult
               /\ \E i \in DOMAIN call'.arg :
                    /\ NamesPicking(call'.message, call'.arg[i])
                    /\ picking'[call'.arg[i]] = picking[call'.arg[i]]
                    /\ \A j \in DOMAIN call'.requests :
                         \E k \in 1..i :
                            call'.requests[j].payload.picking = call'.arg[k]
      ]_vars

\* C15: when the connection-test request is answered with a status other than
\* 200, bobgo_test_connection raises a UserError with the message
\* "Connection test failed (HTTP <status>): <detail>", <detail> being what
\* _extract_error_detail gives for the response, and writes the failed
\* connection status exactly once.
C15_ConnectionTestFailure ==
    (/\ call.op = "bobgo_test_connection"
     /\ call.exchanges # <<>>
     /\ LastExchange.kind = "response"
     /\ LastExchange.status # 200
     /\ _extract_error_detail(LastExchange.body).ok)
    => /\ call.outcome = "UserError"
       /\ call.message = <<"Connection test failed (HTTP ",
                           ToString(LastExchange.status), "): ">>
                         \o _extract_error_detail(LastExchange.body).val
       /\ Len(call.writes) = 1
       /\ ~call.writes[1].bobgo_connection_status

====
